---- MODULE Spec2Model ----
(***************************************************************************)
(* Model of followup/prep_fragalysis.py: the DummyMasker context manager,  *)
(* the dataset serializer prep() and the frame aligner align().            *)
(*                                                                         *)
(* Three specifications share the module: SpecMasker (DummyMasker and a    *)
(* client that uses it directly or as a with-scope), SpecPrep (one call of *)
(* prep, followed statement by statement) and SpecAlign (one call of       *)
(* align).  Each keeps the other components' variables fixed.              *)
(***************************************************************************)
EXTENDS Integers, Sequences, FiniteSets, TLC

VARIABLES
    \* ---- DummyMasker ----
    mol,              \* self.mol: atom index -> atom record
    dummies,          \* self.dummies: list of atom indices found at construction
    zahl,             \* self.zahl
    blank_Gasteiger,  \* self.blank_Gasteiger
    is_masked,        \* self.is_masked
    mpc,              \* client position: "out" of any scope, or in the with "body"
    last,             \* the operation that produced this state
    prev,             \* the operation before it
    mol0,             \* the molecule as it was at construction
    snap_mask,        \* the molecule on entry to the latest mask()
    snap_unmask,      \* the molecule on entry to the latest unmask()
    masked_before,    \* is_masked on entry to the latest unmask()
    unmask_failed_at, \* latest unmask(): 0 = returned, i = assertion failed at dummies[i], -1 = never called
    raised,           \* exception delivered to the caller by the latest operation
    body_exc,         \* exception the with-body ended with ("none" = normal completion)
    scope_calls,      \* mask()/unmask() calls made by the latest with-scope
    \* ---- prep ----
    args,             \* the arguments of the call, as the caller passed them
    df,               \* prep's working copy of the dataset
    extras,           \* the local `extras` (rebound to a list in auto mode)
    extra_fields,     \* the local `extra_fields`: unbound until a branch assigns it
    sdfh,             \* the output file: opened / closed / records written so far
    properties,       \* the property list handed to PandasTools.WriteSDF
    ppc,              \* position in prep
    perr,             \* exception prep raised ("none" while it has not)
    \* ---- align ----
    mol_series,       \* the caller's series of molecules
    series0,          \* the same series as it was when align was called
    ref_hit,          \* the hit in the target frame
    used_hit,         \* the hit in the frame the series is in
    new_mols,         \* the series align returns
    apc,              \* "start" before the call, "done" after it
    aerr              \* exception align raised ("none" when it returned)

mvars == <<mol, dummies, zahl, blank_Gasteiger, is_masked, mpc, last, prev, mol0,
           snap_mask, snap_unmask, masked_before, unmask_failed_at, raised,
           body_exc, scope_calls>>

pvars == <<args, df, extras, extra_fields, sdfh, properties, ppc, perr>>

avars == <<mol_series, series0, ref_hit, used_hit, new_mols, apc, aerr>>

vars == <<mvars, pvars, avars>>

\* ------------------------------------------------------------------ bounds

MaxAtoms == 2
MaxRows == 2
MaxTrim == 2
MaxMols == 2

\* ------------------------------------------------------------ empty values

\* a local variable that no statement has assigned yet, and one that holds v
Unbound == [bound |-> FALSE, v |-> <<>>]
Bound(v) == [bound |-> TRUE, v |-> v]

\* the output file before open()
NoFile == [opened |-> FALSE, closed |-> FALSE, records |-> <<>>]

\* Chem.Mol(): no atoms, no conformers
EmptyMol == [atoms |-> <<>>, confs |-> <<>>]

\* ------------------------------------------------------------- DummyMasker

\* Atomic numbers a molecule is built from: 0 is the wildcard (R/*) atom.
AtomicNums == {0, 6}
\* placekeeper_zahl values tried: the default carbon, and the degenerate 0.
Zahls == {6, 0}
\* '_GasteigerCharge': <<>> when the atom has no such property, <<c>> when it
\* has it with value c (charges in thousandths; <<0>> is 0.0).
Charges == {<<>>, <<-300>>}

Atom(z, c) == [num |-> z, dummy |-> FALSE, hyb |-> "UNSPECIFIED", charge |-> c]

Molecules == UNION {[1..n -> {Atom(z, c) : z \in AtomicNums, c \in Charges}] : n \in 0..MaxAtoms}

RECURSIVE AtomsMatchingFrom(_, _)
\* list(mol.GetAtomsMatchingQuery(AtomNumEqualsQueryAtom(0))): indices in atom order
AtomsMatchingFrom(m, i) ==
    IF i > Len(m) THEN <<>>
    ELSE IF m[i].num = 0 THEN <<i>> \o AtomsMatchingFrom(m, i + 1)
    ELSE AtomsMatchingFrom(m, i + 1)

GetDummies(m) == AtomsMatchingFrom(m, 1)

Range(s) == {s[i] : i \in DOMAIN s}

\* body of the loop of mask()
MaskAtom(at, z) == [at EXCEPT !.num = z, !.dummy = TRUE, !.hyb = "SP3"]

RECURSIVE MaskLoop(_, _, _, _)
MaskLoop(m, ds, i, z) ==
    IF i > Len(ds) THEN m
    ELSE MaskLoop([m EXCEPT ![ds[i]] = MaskAtom(@, z)], ds, i + 1, z)

\* faulty variant: the reset of the atomic number is forgotten
UnmaskAtomKeepsNum(at, blank) ==
    [at EXCEPT !.charge = IF at.charge # <<>> /\ blank THEN <<0>> ELSE at.charge]

\* faulty variant: the charge is blanked whatever blank_Gasteiger says
UnmaskAtomBlanksAlways(at, blank) ==
    [at EXCEPT !.num = 0,
               !.charge = IF at.charge # <<>> THEN <<0>> ELSE at.charge]

\* body of the loop of unmask(), after the assertion
UnmaskAtom(at, blank) ==
    [at EXCEPT !.num = 0,
               !.charge = IF at.charge # <<>> /\ blank THEN <<0>> ELSE at.charge]

\* faulty variant: the assertion is gone
HasDummyPropUnchecked(at) == TRUE

\* the assertion of unmask()
HasDummyProp(at) == at.dummy

RECURSIVE UnmaskLoop(_, _, _, _)
\* the loop of unmask(): the molecule it leaves and the position it failed at (0: none)
UnmaskLoop(m, ds, i, blank) ==
    IF i > Len(ds) THEN [mol |-> m, failed_at |-> 0]
    ELSE IF ~HasDummyProp(m[ds[i]]) THEN [mol |-> m, failed_at |-> i]
    ELSE UnmaskLoop([m EXCEPT ![ds[i]] = UnmaskAtom(@, blank)], ds, i + 1, blank)

\* faulty variant: is_masked is cleared even when the assertion fails
UnmaskFlagAlwaysCleared(r, before) == FALSE

\* self.is_masked after unmask(): the assignment is the last statement
UnmaskFlag(r, before) == IF r.failed_at = 0 THEN FALSE ELSE before

InitMasker ==
    /\ mol \in Molecules
    /\ mol0 = mol
    /\ dummies = GetDummies(mol)
    /\ zahl \in Zahls
    /\ blank_Gasteiger \in BOOLEAN
    /\ is_masked = FALSE
    /\ mpc = "out"
    /\ last = "init"
    /\ prev = "init"
    /\ snap_mask = mol
    /\ snap_unmask = mol
    /\ masked_before = FALSE
    /\ unmask_failed_at = -1
    /\ raised = "none"
    /\ body_exc = "none"
    /\ scope_calls = [mask |-> 0, unmask |-> 0]
    \* prep and align are idle
    /\ args = [df |-> [cols |-> <<>>, rows |-> <<>>], ref_mol_names |-> <<"None">>,
               ref_pdb_name |-> <<"None">>, extras |-> [k |-> "None", fields |-> <<>>],
               letter_trim |-> 0]
    /\ df = [cols |-> <<>>, rows |-> <<>>]
    /\ extras = [k |-> "None", fields |-> <<>>]
    /\ extra_fields = Unbound
    /\ sdfh = NoFile
    /\ properties = <<>>
    /\ ppc = "idle"
    /\ perr = "none"
    /\ mol_series = <<>>
    /\ series0 = <<>>
    /\ ref_hit = EmptyMol
    /\ used_hit = EmptyMol
    /\ new_mols = <<>>
    /\ apc = "idle"
    /\ aerr = "none"

\* state change of mask()
DoMask ==
    /\ snap_mask' = mol
    /\ mol' = MaskLoop(mol, dummies, 1, zahl)
    /\ is_masked' = TRUE

\* state change of unmask()
DoUnmask ==
    LET r == UnmaskLoop(mol, dummies, 1, blank_Gasteiger) IN
    /\ snap_unmask' = mol
    /\ masked_before' = is_masked
    /\ mol' = r.mol
    /\ unmask_failed_at' = r.failed_at
    /\ is_masked' = UnmaskFlag(r, is_masked)

Step(op) == last' = op /\ prev' = last

\* masker.mask() called directly
Mask ==
    /\ UNCHANGED <<pvars, avars>>
    /\ mpc = "out"
    /\ DoMask
    /\ raised' = "none"
    /\ Step("mask")
    /\ UNCHANGED <<dummies, zahl, blank_Gasteiger, mpc, mol0, snap_unmask,
                   masked_before, unmask_failed_at, body_exc, scope_calls>>

\* masker.unmask() called directly
Unmask ==
    /\ UNCHANGED <<pvars, avars>>
    /\ mpc = "out"
    /\ DoUnmask
    /\ raised' = IF unmask_failed_at' = 0 THEN "none" ELSE "AssertionError"
    /\ Step("unmask")
    /\ UNCHANGED <<dummies, zahl, blank_Gasteiger, mpc, mol0, snap_mask,
                   body_exc, scope_calls>>

\* with DummyMasker(mol): -- __enter__
Enter ==
    /\ UNCHANGED <<pvars, avars>>
    /\ mpc = "out"
    /\ DoMask
    /\ scope_calls' = [mask |-> 1, unmask |-> 0]
    /\ mpc' = "body"
    /\ raised' = "none"
    /\ body_exc' = "none"
    /\ Step("enter")
    /\ UNCHANGED <<dummies, zahl, blank_Gasteiger, mol0, snap_unmask,
                   masked_before, unmask_failed_at>>

\* the exception that leaves the with statement: __exit__ returns None, so the
\* body's exception is re-raised, unless __exit__ itself raised
Propagated(exc, failed_at) == IF failed_at # 0 THEN "AssertionError" ELSE exc

\* faulty variant: __exit__ unmasks only when the body completed normally
ExitSkipsOnError(exc) ==
    /\ UNCHANGED <<pvars, avars>>
    /\ mpc = "body"
    /\ IF exc = "none"
       THEN /\ DoUnmask
            /\ scope_calls' = [scope_calls EXCEPT !.unmask = @ + 1]
            /\ raised' = Propagated(exc, unmask_failed_at')
       ELSE /\ raised' = exc
            /\ UNCHANGED <<mol, snap_unmask, masked_before, unmask_failed_at,
                           is_masked, scope_calls>>
    /\ mpc' = "out"
    /\ body_exc' = exc
    /\ Step("exit")
    /\ UNCHANGED <<dummies, zahl, blank_Gasteiger, mol0, snap_mask>>

\* the with-body ends, normally (exc = "none") or by raising exc -- __exit__
Exit(exc) ==
    /\ UNCHANGED <<pvars, avars>>
    /\ mpc = "body"
    /\ DoUnmask
    /\ scope_calls' = [scope_calls EXCEPT !.unmask = @ + 1]
    /\ mpc' = "out"
    /\ body_exc' = exc
    /\ raised' = Propagated(exc, unmask_failed_at')
    /\ Step("exit")
    /\ UNCHANGED <<dummies, zahl, blank_Gasteiger, mol0, snap_mask>>

\* client code clears the 'dummy' property of atom a (atom.ClearProp('dummy'))
ClearProp(a) ==
    /\ UNCHANGED <<pvars, avars>>
    /\ a \in DOMAIN mol
    /\ mol[a].dummy
    /\ mol' = [mol EXCEPT ![a].dummy = FALSE]
    /\ raised' = "none"
    /\ Step("clear")
    /\ UNCHANGED <<dummies, zahl, blank_Gasteiger, is_masked, mpc, mol0, snap_mask,
                   snap_unmask, masked_before, unmask_failed_at, body_exc, scope_calls>>

NextMasker ==
    \/ Mask
    \/ Unmask
    \/ Enter
    \/ \E exc \in {"none", "BodyError"} : Exit(exc)
    \/ \E a \in 1..MaxAtoms : ClearProp(a)

\* -------------------------------------------------------------------- prep

\* A cell of the dataset: a string (a sequence of characters), a float or an
\* int (integer-valued here), not-a-number, or a molecule (n identifies it).
StrCell(s) == [k |-> "str", s |-> s, n |-> 0]
FloatCell(n) == [k |-> "float", s |-> <<>>, n |-> n]
IntCell(n) == [k |-> "int", s |-> <<>>, n |-> n]
NaNCell == [k |-> "nan", s |-> <<>>, n |-> 0]
MolCell(i) == [k |-> "mol", s |-> <<>>, n |-> i]

Min(a, b) == IF a < b THEN a ELSE b
Max(a, b) == IF a > b THEN a ELSE b
Abs(n) == IF n < 0 THEN -n ELSE n

\* s[:n] of Python, n of either sign
SliceTo(s, n) ==
    IF n >= 0 THEN SubSeq(s, 1, Min(n, Len(s)))
    ELSE SubSeq(s, 1, Max(Len(s) + n, 0))

DigitChars == <<"0", "1", "2", "3", "4", "5", "6", "7", "8", "9">>
IsDigit(ch) == \E d \in DOMAIN DigitChars : DigitChars[d] = ch
DigitVal(ch) == (CHOOSE d \in DOMAIN DigitChars : DigitChars[d] = ch) - 1

RECURSIVE Digits(_)
\* decimal digits of n >= 0
Digits(n) ==
    LET d == DigitChars[(n % 10) + 1] IN
    IF n < 10 THEN <<d>> ELSE Digits(n \div 10) \o <<d>>

\* str(value); a float is integer-valued and below 1e16 here, so that its
\* string is its digits and ".0"
Str(c) ==
    CASE c.k = "str" -> c.s
      [] c.k = "float" -> (IF c.n < 0 THEN <<"-">> ELSE <<>>) \o Digits(Abs(c.n)) \o <<".", "0">>
      [] c.k = "int" -> (IF c.n < 0 THEN <<"-">> ELSE <<>>) \o Digits(Abs(c.n))
      [] c.k = "nan" -> <<"n", "a", "n">>
      [] OTHER -> <<"<rdkit.Chem.rdchem.Mol>">>

\* the ASCII characters that \W does not match: [a-zA-Z0-9_]
LowerChars == {"a", "b", "c", "d", "e", "f", "g", "h", "i", "j", "k", "l", "m",
               "n", "o", "p", "q", "r", "s", "t", "u", "v", "w", "x", "y", "z"}
UpperChars == {"A", "B", "C", "D", "E", "F", "G", "H", "I", "J", "K", "L", "M",
               "N", "O", "P", "Q", "R", "S", "T", "U", "V", "W", "X", "Y", "Z"}
WordChars == LowerChars \cup UpperChars \cup Range(DigitChars) \cup {"_"}
IsWordChar(ch) == ch \in WordChars

RECURSIVE StripLeft(_)
StripLeft(s) == IF s # <<>> /\ s[1] = " " THEN StripLeft(Tail(s)) ELSE s
RECURSIVE StripRight(_)
StripRight(s) ==
    IF s # <<>> /\ s[Len(s)] = " " THEN StripRight(SubSeq(s, 1, Len(s) - 1)) ELSE s

RECURSIVE Number(_)
\* the number a run of digits writes
Number(s) ==
    IF s = <<>> THEN 0
    ELSE 10 * Number(SubSeq(s, 1, Len(s) - 1)) + DigitVal(s[Len(s)])

\* float(value), failures mapped to nan.  Of the strings used here (digits,
\* blanks, '#' and the letters of the names) float() accepts those that are,
\* surrounding blanks aside, a run of digits.
floatify(c) ==
    CASE c.k \in {"float", "int"} -> FloatCell(c.n)
      [] c.k = "str" ->
            LET t == StripRight(StripLeft(c.s)) IN
            IF t # <<>> /\ \A i \in DOMAIN t : IsDigit(t[i]) THEN FloatCell(Number(t))
            ELSE NaNCell
      [] OTHER -> NaNCell

\* faulty variant: each run of non-word characters becomes a single '_'
ReplaceNonWordRuns(s) ==
    LET keep == {i \in DOMAIN s : IsWordChar(s[i]) \/ i = 1 \/ IsWordChar(s[i - 1])}
        F[i \in 0..Len(s)] ==
            IF i = 0 THEN <<>>
            ELSE IF i \in keep
                 THEN Append(F[i - 1], IF IsWordChar(s[i]) THEN s[i] ELSE "_")
                 ELSE F[i - 1]
    IN F[Len(s)]

\* .str.replace(r'\W', '_', regex=True)
ReplaceNonWord(s) == [i \in DOMAIN s |-> IF IsWordChar(s[i]) THEN s[i] ELSE "_"]

\* the expression assigned to df[name_col], for one value
SanitizeName(c, trim) == StrCell(SliceTo(ReplaceNonWord(Str(c)), trim))

\* df[col] = series: cells[i] goes to row i; a new column goes last
SetCells(d, col, cells) ==
    [cols |-> IF \E i \in DOMAIN d.cols : d.cols[i] = col THEN d.cols ELSE Append(d.cols, col),
     rows |-> [i \in DOMAIN d.rows |->
                 [c \in DOMAIN d.rows[i] \cup {col} |->
                     IF c = col THEN cells[i] ELSE d.rows[i][c]]]]

\* df[col] = value (a scalar: broadcast to every row)
SetColumn(d, col, cell) == SetCells(d, col, [i \in DOMAIN d.rows |-> cell])

HasColumn(d, col) == \E i \in DOMAIN d.cols : d.cols[i] = col

\* Chem.MolToSmiles(AllChem.RemoveAllHs(mol)): molecule n is the alkane of n carbons
MolToSmiles(c) == StrCell([j \in 1..c.n |-> "C"])

\* truthiness of ref_mol_names / ref_pdb_name: None and '' are falsy
Truthy(v) == v # <<>> /\ v # <<"None">>

mol_col == "mol"
name_col == "name"

\* lines 57-62
ResolveRefMols(d, a) ==
    IF HasColumn(d, "ref_mols") THEN d
    ELSE IF Truthy(a.ref_mol_names) THEN SetColumn(d, "ref_mols", StrCell(a.ref_mol_names))
    ELSE d

\* lines 63-66
ResolveSmiles(d) ==
    IF HasColumn(d, "original SMILES") THEN d
    ELSE SetCells(d, "original SMILES", [i \in DOMAIN d.rows |-> MolToSmiles(d.rows[i][mol_col])])

\* lines 67-72
ResolveRefPdb(d, a) ==
    IF HasColumn(d, "ref_pdb") THEN d
    ELSE IF Truthy(a.ref_pdb_name) THEN SetColumn(d, "ref_pdb", StrCell(a.ref_pdb_name))
    ELSE d

RECURSIVE SumAbs(_, _, _)
\* df[col].fillna(0).apply(abs).sum() over rows i..
SumAbs(d, col, i) ==
    IF i > Len(d.rows) THEN 0
    ELSE (IF d.rows[i][col].k = "float" THEN Abs(d.rows[i][col].n) ELSE 0) + SumAbs(d, col, i + 1)

RECURSIVE AutoLoop(_, _, _)
\* lines 78-81: the loop over df.columns, from column j on, with `extras` so far
AutoLoop(d, j, acc) ==
    IF j > Len(d.cols) THEN [df |-> d, extras |-> acc]
    ELSE LET col == d.cols[j]
             d2 == SetCells(d, col, [i \in DOMAIN d.rows |-> floatify(d.rows[i][col])])
         IN AutoLoop(d2, j + 1, IF SumAbs(d2, col, 1) > 0 THEN Append(acc, col) ELSE acc)


\* the record WriteSDF writes for row i
RowRecord(d, i, props) ==
    [mol |-> d.rows[i][mol_col].n,
     name |-> Str(d.rows[i][name_col]),
     props |-> [j \in DOMAIN props |-> <<props[j], Str(d.rows[i][props[j]])>>]]

\* the header molecule, as generate_header names it (molecule 0)
header == [mol |-> 0, name |-> <<"v", "e", "r", "_", "1", ".", "2">>, props |-> <<>>]

\* ---- the datasets and arguments tried

NameSamples == {<<" ", "#", "a", "1">>, <<"1">>}
ScoreSamples == {0, 1}
\* <<"None">> stands for None, <<>> for the empty string
RefNames == {<<"None">>, <<>>, <<"H", "I", "T", "1">>}
PdbNames == {<<"None">>, <<"5", "A", "B", "C">>}
ExtrasArgs == {[k |-> "None", fields |-> <<>>],
               [k |-> "True", fields |-> <<>>],
               [k |-> "dict", fields |-> <<"score">>],
               [k |-> "list", fields |-> <<"score", "flag">>],
               [k |-> "list", fields |-> <<"pIC50">>],
               [k |-> "False", fields |-> <<>>]}

DataFrame(names, scores, with_mols, with_smiles, with_pdb) ==
    LET opt == (IF with_mols THEN <<"ref_mols">> ELSE <<>>)
               \o (IF with_smiles THEN <<"original SMILES">> ELSE <<>>)
               \o (IF with_pdb THEN <<"ref_pdb">> ELSE <<>>)
        cols == <<mol_col, name_col, "score", "flag">> \o opt
    IN [cols |-> cols,
        rows |-> [i \in DOMAIN names |->
                    [c \in Range(cols) |->
                        CASE c = mol_col -> MolCell(i)
                          [] c = name_col -> StrCell(names[i])
                          [] c = "score" -> FloatCell(scores[i])
                          [] c = "flag" -> IntCell(0)
                          [] c = "ref_mols" -> StrCell(<<"H", "I", "T", "0">>)
                          [] c = "original SMILES" -> StrCell(<<"O">>)
                          [] OTHER -> StrCell(<<"1", "X", "Y", "Z">>)]]]


InitPrep ==
    /\ \E n \in 0..MaxRows :
       \E names \in [1..n -> NameSamples], scores \in [1..n -> ScoreSamples],
          wm \in BOOLEAN, ws \in BOOLEAN, wp \in BOOLEAN,
          rm \in RefNames, rp \in PdbNames, ex \in ExtrasArgs, lt \in 0..MaxTrim :
          args = [df |-> DataFrame(names, scores, wm, ws, wp),
                  ref_mol_names |-> rm, ref_pdb_name |-> rp,
                  extras |-> ex, letter_trim |-> lt]
    /\ df = args.df
    /\ extras = args.extras
    /\ extra_fields = Unbound
    /\ sdfh = NoFile
    /\ properties = <<>>
    /\ ppc = "start"
    /\ perr = "none"
    \* DummyMasker and align are idle
    /\ mol = <<>>
    /\ mol0 = <<>>
    /\ dummies = <<>>
    /\ zahl = 6
    /\ blank_Gasteiger = TRUE
    /\ is_masked = FALSE
    /\ mpc = "idle"
    /\ last = "init"
    /\ prev = "init"
    /\ snap_mask = <<>>
    /\ snap_unmask = <<>>
    /\ masked_before = FALSE
    /\ unmask_failed_at = -1
    /\ raised = "none"
    /\ body_exc = "none"
    /\ scope_calls = [mask |-> 0, unmask |-> 0]
    /\ mol_series = <<>>
    /\ series0 = <<>>
    /\ ref_hit = EmptyMol
    /\ used_hit = EmptyMol
    /\ new_mols = <<>>
    /\ apc = "idle"
    /\ aerr = "none"

\* lines 54-72: the copy, and the three reference columns (df is a DataFrame
\* whose column names are strings: the assertion passes, the rename changes
\* nothing)
ResolveColumns ==
    /\ UNCHANGED <<mvars, avars>>
    /\ ppc = "start"
    /\ df' = ResolveRefPdb(ResolveSmiles(ResolveRefMols(df, args)), args)
    /\ ppc' = "extras"
    /\ UNCHANGED <<args, extras, extra_fields, sdfh, properties, perr>>

\* lines 74-87
ResolveExtras ==
    /\ UNCHANGED <<mvars, avars>>
    /\ ppc = "extras"
    /\ CASE extras.k = "None" ->
              /\ extra_fields' = Bound(<<>>)
              /\ UNCHANGED <<df, extras, perr>>
              /\ ppc' = "names"
         [] extras.k = "True" ->
              LET r == AutoLoop(df, 1, <<>>) IN
              /\ df' = r.df
              /\ extras' = [k |-> "list", fields |-> r.extras]
              /\ UNCHANGED <<extra_fields, perr>>
              /\ ppc' = "names"
         [] extras.k = "dict" ->
              /\ extra_fields' = Bound(extras.fields)
              /\ UNCHANGED <<df, extras, perr>>
              /\ ppc' = "names"
         [] extras.k = "list" ->
              /\ extra_fields' = Bound(extras.fields)
              /\ UNCHANGED <<df, extras, perr>>
              /\ ppc' = "names"
         [] OTHER ->
              /\ perr' = "ValueError"
              /\ ppc' = "failed"
              /\ UNCHANGED <<df, extras, extra_fields>>
    /\ UNCHANGED <<args, sdfh, properties>>

\* lines 88-91
SanitizeNames ==
    /\ UNCHANGED <<mvars, avars>>
    /\ ppc = "names"
    /\ df' = [df EXCEPT !.rows = [i \in DOMAIN df.rows |->
                 [df.rows[i] EXCEPT ![name_col] = SanitizeName(@, args.letter_trim)]]]
    /\ ppc' = "open"
    /\ UNCHANGED <<args, extras, extra_fields, sdfh, properties, perr>>

\* lines 92-94: open(outfile, 'w'), and the header through its own SDWriter
WriteHeader ==
    /\ UNCHANGED <<mvars, avars>>
    /\ ppc = "open"
    /\ sdfh' = [opened |-> TRUE, closed |-> FALSE, records |-> <<header>>]
    /\ ppc' = "call"
    /\ UNCHANGED <<args, df, extras, extra_fields, properties, perr>>

\* faulty variant: the extra columns are left out of the property list
PropertyListNoExtras(ef) == <<"ref_pdb", "ref_mols", "original SMILES">>

\* line 96: the last argument of WriteSDF
PropertyList(ef) == <<"ref_pdb", "ref_mols", "original SMILES">> \o ef

\* lines 95-96: the arguments of WriteSDF are evaluated; an unbound
\* extra_fields raises UnboundLocalError, and the with statement closes the file
CallWriteSDF ==
    /\ UNCHANGED <<mvars, avars>>
    /\ ppc = "call"
    /\ IF extra_fields.bound
       THEN /\ properties' = PropertyList(extra_fields.v)
            /\ ppc' = "rows"
            /\ UNCHANGED <<sdfh, perr>>
       ELSE /\ perr' = "UnboundLocalError"
            /\ ppc' = "failed"
            /\ sdfh' = [sdfh EXCEPT !.closed = TRUE]
            /\ UNCHANGED properties
    /\ UNCHANGED <<args, df, extras, extra_fields>>

\* WriteSDF's loop, one row: the row after the last record written.  A cell
\* that is no molecule or a property that is no column raises, and the with
\* statement closes the file.  (The property list never names mol_col or
\* name_col here; WriteSDF would drop them from it.)
WriteRow ==
    /\ UNCHANGED <<mvars, avars>>
    /\ ppc = "rows"
    /\ Len(sdfh.records) - 1 < Len(df.rows)
    /\ LET i == Len(sdfh.records) IN
       IF df.rows[i][mol_col].k # "mol"
       THEN /\ perr' = "TypeError"
            /\ ppc' = "failed"
            /\ sdfh' = [sdfh EXCEPT !.closed = TRUE]
       ELSE IF \E j \in DOMAIN properties : ~HasColumn(df, properties[j])
       THEN /\ perr' = "KeyError"
            /\ ppc' = "failed"
            /\ sdfh' = [sdfh EXCEPT !.closed = TRUE]
       ELSE /\ sdfh' = [sdfh EXCEPT !.records = Append(@, RowRecord(df, i, properties))]
            /\ UNCHANGED <<ppc, perr>>
    /\ UNCHANGED <<args, df, extras, extra_fields, properties>>

\* WriteSDF returns after the last row and the with statement closes the file
Close ==
    /\ UNCHANGED <<mvars, avars>>
    /\ ppc = "rows"
    /\ Len(sdfh.records) - 1 = Len(df.rows)
    /\ sdfh' = [sdfh EXCEPT !.closed = TRUE]
    /\ ppc' = "done"
    /\ UNCHANGED <<args, df, extras, extra_fields, properties, perr>>

NextPrep ==
    \/ ResolveColumns
    \/ ResolveExtras
    \/ SanitizeNames
    \/ WriteHeader
    \/ CallWriteSDF
    \/ WriteRow
    \/ Close

\* ------------------------------------------------------------------- align

\* A molecule with conformers: its atoms (atomic numbers) and, per conformer,
\* one coordinate per atom (space is one integer axis here, and a rigid
\* transform a translation along it).
Placed(ats, x) == [atoms |-> ats, confs |-> <<[i \in DOMAIN ats |-> x + i]>>]

Coords == {0, 3}
Followups == {Placed(ats, x) : ats \in {<<6>>, <<6, 8>>}, x \in Coords}
Hits == {Placed(ats, x) : ats \in {<<6, 7>>, <<6, 8>>}, x \in Coords}

\* AllChem.GetAlignmentTransform(prb, ref): fails without an atom match
CanAlign(prb, ref) == prb.atoms = ref.atoms /\ prb.confs # <<>> /\ ref.confs # <<>>
GetAlignmentTransform(prb, ref) == ref.confs[1][1] - prb.confs[1][1]

\* AllChem.TransformConformer(mol.GetConformer(), t): GetConformer fails on a
\* molecule without conformers
HasConformer(m) == m.confs # <<>>
TransformConformer(m, t) ==
    [m EXCEPT !.confs[1] = [i \in DOMAIN m.confs[1] |-> m.confs[1][i] + t]]

\* line 20: mol_series.apply(lambda mol: Chem.Mol())
NewMols(series) == [i \in DOMAIN series |-> EmptyMol]

InitAlign ==
    /\ mol_series \in UNION {[1..n -> Followups] : n \in 0..MaxMols}
    /\ series0 = mol_series
    /\ ref_hit \in Hits
    /\ used_hit \in Hits
    /\ new_mols = <<>>
    /\ apc = "start"
    /\ aerr = "none"
    \* DummyMasker and prep are idle
    /\ mol = <<>>
    /\ mol0 = <<>>
    /\ dummies = <<>>
    /\ zahl = 6
    /\ blank_Gasteiger = TRUE
    /\ is_masked = FALSE
    /\ mpc = "idle"
    /\ last = "init"
    /\ prev = "init"
    /\ snap_mask = <<>>
    /\ snap_unmask = <<>>
    /\ masked_before = FALSE
    /\ unmask_failed_at = -1
    /\ raised = "none"
    /\ body_exc = "none"
    /\ scope_calls = [mask |-> 0, unmask |-> 0]
    /\ args = [df |-> [cols |-> <<>>, rows |-> <<>>], ref_mol_names |-> <<"None">>,
               ref_pdb_name |-> <<"None">>, extras |-> [k |-> "None", fields |-> <<>>],
               letter_trim |-> 0]
    /\ df = [cols |-> <<>>, rows |-> <<>>]
    /\ extras = [k |-> "None", fields |-> <<>>]
    /\ extra_fields = Unbound
    /\ sdfh = NoFile
    /\ properties = <<>>
    /\ ppc = "idle"
    /\ perr = "none"

\* one call of align
Align ==
    /\ UNCHANGED <<mvars, pvars>>
    /\ apc = "start"
    /\ apc' = "done"
    /\ IF ~CanAlign(used_hit, ref_hit)
       THEN aerr' = "RuntimeError" /\ new_mols' = <<>>
       ELSE LET rototrans == GetAlignmentTransform(used_hit, ref_hit)
                made == NewMols(mol_series)
            IN IF \E i \in DOMAIN made : ~HasConformer(made[i])
               THEN aerr' = "ValueError" /\ new_mols' = <<>>
               ELSE /\ aerr' = "none"
                    /\ new_mols' = [i \in DOMAIN made |-> TransformConformer(made[i], rototrans)]
    /\ UNCHANGED <<mol_series, series0, ref_hit, used_hit>>

NextAlign == Align

\* ---------------------------------------------------------- specifications
\* Each starts one component and leaves the two others idle.

SpecMasker == InitMasker /\ [][NextMasker]_vars
SpecPrep == InitPrep /\ [][NextPrep]_vars
SpecAlign == InitAlign /\ [][NextAlign]_vars

\* ------------------------------------------------------ DummyMasker: claims

Tracked == Range(dummies)
AfterUnmask == last \in {"unmask", "exit"}
Returned == unmask_failed_at = 0

\* C1 as stated: entering the scope calls mask() once; when the scope has been
\* left, unmask() has been called exactly once, and an exception raised in the
\* body is the exception the caller receives.
C1_ScopeAsStated ==
    /\ last = "enter" => scope_calls = [mask |-> 1, unmask |-> 0]
    /\ last = "exit" =>
          /\ scope_calls = [mask |-> 1, unmask |-> 1]
          /\ body_exc # "none" => raised = body_exc

\* C1 amended: entering the scope calls mask() once; when the scope has been
\* left, unmask() has been called exactly once; the caller receives the body's
\* exception (or none) when that unmask() returned, and unmask()'s
\* AssertionError when it failed.
C1_Scope ==
    /\ last = "enter" => scope_calls = [mask |-> 1, unmask |-> 0] /\ is_masked
    /\ last = "exit" =>
          /\ scope_calls = [mask |-> 1, unmask |-> 1]
          /\ Returned => raised = body_exc
          /\ ~Returned => raised = "AssertionError"

\* a scope over a molecule with a placeholder atom, left by an exception of the body
C1_Witness ==
    /\ last = "exit"
    /\ body_exc = "BodyError"
    /\ raised = "BodyError"
    /\ dummies # <<>>
    /\ scope_calls.unmask = 1

\* C2: mask() directly followed by unmask() returns normally, leaves every
\* tracked atom with atomic number 0 and every other atom with the atomic
\* number it had before mask(); the tracked list is the one found at
\* construction (the atoms that had atomic number 0 then).
C2_RoundTrip ==
    /\ dummies = GetDummies(mol0)
    /\ Tracked = {i \in DOMAIN mol0 : mol0[i].num = 0}
    /\ (AfterUnmask /\ prev \in {"mask", "enter"}) =>
          /\ Returned
          /\ DOMAIN mol = DOMAIN snap_mask
          /\ \A i \in DOMAIN mol :
                /\ i \in Tracked => mol[i].num = 0
                /\ i \notin Tracked => mol[i].num = snap_mask[i].num

\* a round trip over a molecule with a placeholder and an ordinary atom, the
\* substitute being carbon
C2_Witness ==
    /\ last = "unmask"
    /\ prev = "mask"
    /\ zahl = 6
    /\ Tracked # {}
    /\ \E i \in DOMAIN mol : i \notin Tracked

\* C3: unmask() returns normally exactly when every tracked atom carried the
\* 'dummy' property when it was called; otherwise it raises AssertionError.
C3_Guard ==
    AfterUnmask =>
       /\ Returned <=> \A i \in Tracked : snap_unmask[i].dummy
       /\ ~Returned => raised = "AssertionError"
       /\ (Returned /\ last = "unmask") => raised = "none"

\* the marker was removed from a tracked atom after mask(), and unmask() failed
C3_Witness ==
    /\ last = "unmask"
    /\ prev = "clear"
    /\ masked_before
    /\ unmask_failed_at > 0
    /\ raised = "AssertionError"

\* C4: after an unmask() that returned: with blank_Gasteiger, every tracked
\* atom that had a '_GasteigerCharge' has it equal to 0.0; without it every
\* atom's charge is as before; an atom without the property does not gain it
\* and an untracked atom's charge is unchanged.
C4_Charges ==
    (AfterUnmask /\ Returned) =>
       \A i \in DOMAIN mol :
          /\ snap_unmask[i].charge = <<>> => mol[i].charge = <<>>
          /\ i \notin Tracked => mol[i].charge = snap_unmask[i].charge
          /\ (blank_Gasteiger /\ i \in Tracked /\ snap_unmask[i].charge # <<>>)
                => mol[i].charge = <<0>>
          /\ ~blank_Gasteiger => mol[i].charge = snap_unmask[i].charge

\* a charged placeholder atom was blanked
C4_Witness ==
    /\ AfterUnmask
    /\ Returned
    /\ blank_Gasteiger
    /\ \E i \in Tracked : snap_unmask[i].charge = <<-300>> /\ mol[i].charge = <<0>>

\* what a failed unmask() of a masked molecule leaves behind
C10_PartialState ==
    (/\ AfterUnmask
     /\ ~Returned
     /\ masked_before
     /\ \A i \in Tracked : snap_unmask[i].num = zahl) =>
       /\ is_masked
       /\ \A j \in 1..Len(dummies) :
             LET a == dummies[j] IN
             /\ j < unmask_failed_at =>
                   /\ mol[a].num = 0
                   /\ (blank_Gasteiger /\ snap_unmask[a].charge # <<>>)
                         => mol[a].charge = <<0>>
             /\ j >= unmask_failed_at => mol[a] = snap_unmask[a] /\ mol[a].num = zahl

\* C10: when unmask() of a masked molecule fails at position i of the tracked
\* list, the atoms before i are reset (and blanked), the atoms from i on still
\* carry the substitute number and is_masked is still True; is_masked goes from
\* True to False only in an unmask() that returned.
C10_NotAtomic ==
    /\ []C10_PartialState
    /\ [][(is_masked /\ ~is_masked') => (last' \in {"unmask", "exit"} /\ unmask_failed_at' = 0)]_vars

\* unmask() failed at the second tracked atom, after resetting the first
C10_Witness ==
    /\ AfterUnmask
    /\ masked_before
    /\ zahl = 6
    /\ unmask_failed_at = 2
    /\ mol[dummies[1]].num = 0
    /\ mol[dummies[2]].num = 6
    /\ is_masked

\* ------------------------------------------------------- prep, align: claims

BaseProps == <<"ref_pdb", "ref_mols", "original SMILES">>
Keys(props) == [j \in DOMAIN props |-> props[j][1]]
RowRecords == {k \in DOMAIN sdfh.records : k >= 2}

\* the call has no 'ref_mols' column and no ref_mol_names, or no 'ref_pdb'
\* column and no ref_pdb_name
MissingRefData ==
    \/ ~HasColumn(args.df, "ref_mols") /\ ~Truthy(args.ref_mol_names)
    \/ ~HasColumn(args.df, "ref_pdb") /\ ~Truthy(args.ref_pdb_name)

\* C5 as stated: a call with missing reference data fails at once with an
\* error, before the output file is opened or any record is written.
C5_MissingRefFails ==
    (MissingRefData /\ ppc \notin {"idle", "start"}) =>
       /\ ppc = "failed"
       /\ perr = "ValueError"
       /\ ~sdfh.opened
       /\ sdfh.records = <<>>

\* the columns whose values, coerced to float, are not all zero (nan as zero)
NonZeroColumns(d) ==
    SelectSeq(d.cols, LAMBDA c : \E i \in DOMAIN d.rows :
                                   floatify(d.rows[i][c]).k = "float"
                                   /\ floatify(d.rows[i][c]).n # 0)

\* C6 as stated: in auto mode (extras=True), the reference data being given,
\* prep completes; the molecule and name columns stay usable; the records
\* carry as extra columns exactly the columns whose coerced values are not all
\* zero.
C6_AutoExtras ==
    (args.extras.k = "True" /\ ~MissingRefData) =>
       /\ ppc # "failed"
       /\ ppc \in {"names", "open", "call", "rows", "done"} =>
             \A i \in DOMAIN df.rows : df.rows[i][mol_col] = args.df.rows[i][mol_col]
       /\ ppc = "names" =>
             \A i \in DOMAIN df.rows : df.rows[i][name_col] = args.df.rows[i][name_col]
       /\ ppc = "done" =>
             /\ Len(sdfh.records) = Len(args.df.rows) + 1
             /\ \A k \in RowRecords :
                   Keys(sdfh.records[k].props) = BaseProps \o NonZeroColumns(df)

\* C7: the name of every row record written is the string form of the row's
\* name value with each non-word character replaced by one '_', cut to its
\* first letter_trim characters: at most letter_trim characters, none of them
\* a non-word character.
C7_Names ==
    \A k \in RowRecords :
       LET orig == Str(args.df.rows[k - 1][name_col])
           w == sdfh.records[k].name
       IN /\ Len(w) = Min(Len(orig), args.letter_trim)
          /\ Len(w) <= args.letter_trim
          /\ \A j \in DOMAIN w :
                /\ w[j] = (IF IsWordChar(orig[j]) THEN orig[j] ELSE "_")
                /\ IsWordChar(w[j])

\* a written name that was cut and whose two first characters were replaced
C7_Witness ==
    \E k \in RowRecords :
       /\ Len(Str(args.df.rows[k - 1][name_col])) > args.letter_trim
       /\ sdfh.records[k].name = <<"_", "_">>

\* the extra columns the call asked for, when it names them
NamedExtras == IF args.extras.k \in {"dict", "list"} THEN args.extras.fields ELSE <<>>

\* C8: the header is the first record and no row record precedes it; the row
\* records follow in dataset order, each with 'ref_pdb', 'ref_mols',
\* 'original SMILES' and every extra column; a call that succeeded on N rows
\* has written N+1 records.
C8_Records ==
    /\ sdfh.records # <<>> => sdfh.records[1] = header
    /\ \A k \in RowRecords :
          LET i == k - 1
              r == sdfh.records[k]
          IN /\ r.mol = args.df.rows[i][mol_col].n
             /\ Keys(r.props) = BaseProps \o NamedExtras
             /\ r.props[2][2] = (IF HasColumn(args.df, "ref_mols")
                                 THEN Str(args.df.rows[i]["ref_mols"])
                                 ELSE args.ref_mol_names)
             /\ r.props[1][2] = (IF HasColumn(args.df, "ref_pdb")
                                 THEN Str(args.df.rows[i]["ref_pdb"])
                                 ELSE args.ref_pdb_name)
             /\ r.props[3][2] # <<>>
             /\ \A j \in 4..Len(r.props) : r.props[j][2] = Str(args.df.rows[i][r.props[j][1]])
    /\ ppc = "done" =>
          /\ Len(sdfh.records) = Len(args.df.rows) + 1
          /\ sdfh.closed
          /\ perr = "none"

\* a successful call on two rows with a named extra column
C8_Witness ==
    /\ ppc = "done"
    /\ Len(args.df.rows) = 2
    /\ args.extras.k = "dict"
    /\ Len(sdfh.records) = 3
    /\ ~HasColumn(args.df, "ref_mols")

\* C9 as stated: align returns a series as long as the input, whose i-th
\* molecule has the atoms of the i-th input and its coordinates moved by the
\* one transform from used_hit onto ref_hit; the caller's molecules are intact.
C9_Align ==
    (apc = "done" /\ CanAlign(used_hit, ref_hit)) =>
       /\ aerr = "none"
       /\ mol_series = series0
       /\ Len(new_mols) = Len(series0)
       /\ \A i \in DOMAIN new_mols :
             /\ new_mols[i].atoms = series0[i].atoms
             /\ new_mols[i].confs =
                   <<[j \in DOMAIN series0[i].confs[1] |->
                        series0[i].confs[1][j] + GetAlignmentTransform(used_hit, ref_hit)]>>

====
